---- MODULE Spec2Model ----
(***************************************************************************)
(* Model of the market-analysis pipeline of src/agents.py: the request     *)
(* parser and orchestrator (agent_orchestrator), the supervisor/stage      *)
(* graph (supervisor_node, search_node, extract_node, analyze_node,        *)
(* visualize_node), the fallback data generator and the persisted result   *)
(* file (save_results_tool, load_results_tool).                            *)
(*                                                                         *)
(* Conventions.  Python strings are TLA+ strings.  Python floats with one  *)
(* decimal are integers counting tenths (8.5 is 85).  A JSON value held in *)
(* a list is an item [k |-> kind, f |-> fields]: k = "dict" with f the     *)
(* dict, k = "str" for a JSON string, k = "num" for a JSON number.         *)
(***************************************************************************)
EXTENDS Integers, Sequences, FiniteSets, TLC

(***************************************************************************)
(* Strings: str.lower, the `in` substring test and the regular expressions *)
(* of the request parser, computed on the characters of the text.          *)
(***************************************************************************)
LowerChar(c) ==
    CASE c = "A" -> "a" [] c = "B" -> "b" [] c = "C" -> "c" [] c = "D" -> "d"
      [] c = "E" -> "e" [] c = "F" -> "f" [] c = "G" -> "g" [] c = "H" -> "h"
      [] c = "I" -> "i" [] c = "J" -> "j" [] c = "K" -> "k" [] c = "L" -> "l"
      [] c = "M" -> "m" [] c = "N" -> "n" [] c = "O" -> "o" [] c = "P" -> "p"
      [] c = "Q" -> "q" [] c = "R" -> "r" [] c = "S" -> "s" [] c = "T" -> "t"
      [] c = "U" -> "u" [] c = "V" -> "v" [] c = "W" -> "w" [] c = "X" -> "x"
      [] c = "Y" -> "y" [] c = "Z" -> "z" [] OTHER -> c

\* str.lower(), by halves
RECURSIVE lower(_)
lower(s) ==
    IF Len(s) = 0 THEN ""
    ELSE IF Len(s) = 1 THEN LowerChar(s)
    ELSE lower(SubSeq(s, 1, Len(s) \div 2)) \o lower(SubSeq(s, (Len(s) \div 2) + 1, Len(s)))

\* Python `sub in s`
contains(s, sub) ==
    \E i \in 1..(Len(s) - Len(sub) + 1) : SubSeq(s, i, i + Len(sub) - 1) = sub

CharAt(s, i) == SubSeq(s, i, i)

IsQuote(c) == c = "'" \/ c = "\""

Min(S) == CHOOSE m \in S : \A n \in S : m <= n

\* re.search(r"<word> ['\"](.*?)['\"]", s): the match positions <<i, j>> of
\* the leftmost word-plus-quote at i and the nearest closing quote at j.
QuotedAfterMatches(s, word) ==
    { i \in 1..Len(s) :
        /\ i + Len(word) + 1 <= Len(s)
        /\ SubSeq(s, i, i + Len(word)) = word \o " "
        /\ IsQuote(CharAt(s, i + Len(word) + 1))
        /\ \E j \in (i + Len(word) + 2)..Len(s) : IsQuote(CharAt(s, j)) }

QuotedAfter(s, word) ==
    IF QuotedAfterMatches(s, word) = {} THEN [found |-> FALSE, group |-> ""]
    ELSE LET i == Min(QuotedAfterMatches(s, word))
             b == i + Len(word) + 2
             j == Min({ jj \in b..Len(s) : IsQuote(CharAt(s, jj)) })
         IN  [found |-> TRUE, group |-> SubSeq(s, b, j - 1)]

\* re.search(r"for ['\"]([^']*?)['\"]\.", s)
NoApostrophe(s, a, b) == \A k \in a..b : CharAt(s, k) # "'"

TimeCloses(s, b) ==
    { j \in b..(Len(s) - 1) :
        /\ IsQuote(CharAt(s, j))
        /\ CharAt(s, j + 1) = "."
        /\ NoApostrophe(s, b, j - 1) }

TimeMatches(s) ==
    { i \in 1..Len(s) :
        /\ i + 4 <= Len(s)
        /\ SubSeq(s, i, i + 3) = "for "
        /\ IsQuote(CharAt(s, i + 4))
        /\ TimeCloses(s, i + 5) # {} }

TimePeriodMatch(s) ==
    IF TimeMatches(s) = {} THEN [found |-> FALSE, group |-> ""]
    ELSE LET i == Min(TimeMatches(s))
             j == Min(TimeCloses(s, i + 5))
         IN  [found |-> TRUE, group |-> SubSeq(s, i + 5, j - 1)]

IsLoadRequest_unless_kind(question) ==
    /\ contains(lower(question), "load") /\ contains(lower(question), "result")
    /\ ~contains(lower(question), "market gap")

\* agent_orchestrator: the short-circuit test on the request text
IsLoadRequest(question) ==
    contains(lower(question), "load") /\ contains(lower(question), "result")

\* agent_orchestrator: keyword and pattern parsing with its defaults
parse_query(question) ==
    LET q   == lower(question)
        cat == QuotedAfter(question, "for")
        plt == QuotedAfter(question, "on")
        reg == QuotedAfter(question, "in")
        tim == TimePeriodMatch(question)
    IN  [ analysis_type |->
              IF contains(q, "market gap") THEN "market gap"
              ELSE IF contains(q, "trending") THEN "trending products"
              ELSE IF contains(q, "high selling") THEN "high selling products"
              ELSE IF contains(q, "competitor") THEN "competitor analysis"
              ELSE "general",
          category    |-> IF cat.found THEN cat.group ELSE "products",
          platform    |-> IF plt.found THEN plt.group ELSE "Amazon",
          region      |-> IF reg.found THEN reg.group ELSE "US",
          time_period |-> IF tim.found THEN tim.group ELSE "Last Month" ]

(***************************************************************************)
(* Fallback data generator (generate_enhanced_fallback_data).              *)
(***************************************************************************)
Dict(fields) == [k |-> "dict", f |-> fields]

category_products ==
    [ c \in { "smart home devices", "electronics", "fitness equipment",
              "kitchen appliances", "wireless headphones", "skincare products" } |->
        CASE c = "smart home devices" ->
               [ products |-> << "Amazon Echo Dot (4th Gen)", "Ring Video Doorbell Pro 2",
                                 "Philips Hue White A19 Starter Kit", "Google Nest Hub (2nd Gen)",
                                 "TP-Link Kasa Smart Plug HS103" >>,
                 brands   |-> << "Amazon", "Ring (Amazon)", "Philips", "Google", "TP-Link" >> ]
          [] c = "electronics" ->
               [ products |-> << "Apple AirPods Pro (2nd Generation)", "Samsung Galaxy Buds2 Pro",
                                 "Sony WH-1000XM5 Wireless Headphones", "Apple iPad (10th Generation)",
                                 "Anker PowerCore 10000 Power Bank" >>,
                 brands   |-> << "Apple", "Samsung", "Sony", "Apple", "Anker" >> ]
          [] c = "fitness equipment" ->
               [ products |-> << "Bowflex SelectTech 552 Adjustable Dumbbells",
                                 "Resistance Bands Set (11 Piece)", "Manduka PRO Yoga Mat",
                                 "TriggerPoint GRID Foam Roller", "REP FITNESS AB-3000 Bench" >>,
                 brands   |-> << "Bowflex", "Bodylastics", "Manduka", "TriggerPoint", "REP FITNESS" >> ]
          [] c = "kitchen appliances" ->
               [ products |-> << "Ninja AF101 Air Fryer", "Keurig K-Mini Coffee Maker",
                                 "Instant Pot Duo 7-in-1 Electric Pressure Cooker",
                                 "Vitamix E310 Explorian Blender", "Breville BOV845BSS Smart Oven Pro" >>,
                 brands   |-> << "Ninja", "Keurig", "Instant Pot", "Vitamix", "Breville" >> ]
          [] c = "wireless headphones" ->
               [ products |-> << "Apple AirPods (3rd Generation)", "Sony WF-1000XM4 True Wireless Earbuds",
                                 "Bose QuietComfort Earbuds", "Jabra Elite 85t True Wireless Earbuds",
                                 "Sennheiser Momentum 4 Wireless Headphones" >>,
                 brands   |-> << "Apple", "Sony", "Bose", "Jabra", "Sennheiser" >> ]
          [] c = "skincare products" ->
               [ products |-> << "CeraVe Daily Moisturizing Lotion", "Neutrogena Ultra Gentle Daily Cleanser",
                                 "The Ordinary Niacinamide 10% + Zinc 1%",
                                 "EltaMD UV Clear Broad-Spectrum SPF 46",
                                 "Freeman Charcoal & Black Sugar Face Mask" >>,
                 brands   |-> << "CeraVe", "Neutrogena", "The Ordinary", "EltaMD", "Freeman" >> ] ]

\* chr(65 + i) for i in range(5)
BrandLetter == << "A", "B", "C", "D", "E" >>

\* category_products.get(category.lower(), {synthesized names})
category_data(category) ==
    IF lower(category) \in DOMAIN category_products
    THEN category_products[lower(category)]
    ELSE [ products |-> [ i \in 1..5 |-> category \o " Best Seller #" \o ToString(i) ],
           brands   |-> [ i \in 1..5 |-> category \o " Brand " \o BrandLetter[i] ] ]

\* base_revenue and competition_factor count tenths
platform_multipliers ==
    [ p \in { "Amazon", "eBay", "Walmart" } |->
        CASE p = "Amazon"  -> [ base_volume |-> 150, base_revenue |-> 32, competition_factor |-> 10 ]
          [] p = "eBay"    -> [ base_volume |-> 80,  base_revenue |-> 18, competition_factor |-> 7 ]
          [] p = "Walmart" -> [ base_volume |-> 120, base_revenue |-> 25, competition_factor |-> 8 ] ]

\* market_factor counts tenths
country_factors ==
    [ c \in { "US", "UK", "DE", "JP" } |->
        CASE c = "US" -> [ market_factor |-> 10, currency |-> "$" ]
          [] c = "UK" -> [ market_factor |-> 6,  currency |-> "£" ]
          [] c = "DE" -> [ market_factor |-> 8,  currency |-> "€" ]
          [] c = "JP" -> [ market_factor |-> 7,  currency |-> "¥" ] ]

\* growth_boost counts tenths
time_factors ==
    [ t \in { "Last Week", "Last Month", "Last 3 Months", "Last 6 Months" } |->
        CASE t = "Last Week"     -> [ growth_boost |-> 3 ]
          [] t = "Last Month"    -> [ growth_boost |-> 10 ]
          [] t = "Last 3 Months" -> [ growth_boost |-> 15 ]
          [] t = "Last 6 Months" -> [ growth_boost |-> 20 ] ]

\* dict.get(key, default)
Get(table, key, default) == IF key \in DOMAIN table THEN table[key] ELSE table[default]

\* Python round(x) of the float product whose exact value is n/d: nearest
\* integer, exact ties to the even neighbour.
round(n, d) ==
    LET q == n \div d
        r == n % d
    IN  IF 2 * r > d THEN q + 1
        ELSE IF 2 * r < d THEN q
        ELSE IF q % 2 = 0 THEN q ELSE q + 1

\* Python round(x, 1), in tenths, of the float product whose exact value is
\* n/d tenths.  The products whose binary double is not the tie itself are
\* decided by the double: 8.5*0.7 and 6.5*0.7 lie below the tie, 2.5*0.66
\* lies above it.
FloatBelowTie == { <<595, 10>>, <<455, 10>> }
FloatAboveTie == { <<16500, 1000>> }

round1_unscaled(n, d) == n

round1(n, d) ==
    IF 2 * (n % d) = d /\ <<n, d>> \in FloatBelowTie THEN n \div d
    ELSE IF 2 * (n % d) = d /\ <<n, d>> \in FloatAboveTie THEN (n \div d) + 1
    ELSE round(n, d)

\* str() of a float held in tenths
Tenths(t) == ToString(t \div 10) \o "." \o ToString(t % 10)

min(a, b) == IF a <= b THEN a ELSE b

generate_enhanced_fallback_data(analysis_type, category, platform, country, time_range) ==
    LET products == category_data(category).products
        brands   == category_data(category).brands
        p_mult   == Get(platform_multipliers, platform, "Amazon")
        c_factor == Get(country_factors, country, "US")
        t_factor == Get(time_factors, time_range, "Last Month")
        mf       == c_factor.market_factor
        cur      == c_factor.currency
        gb       == t_factor.growth_boost
        gap(i, demand, competition, opportunity, size) ==
            Dict([ product      |-> products[i],
                   demand_score |-> round1(demand * mf, 10),
                   competition  |-> competition,
                   opportunity  |-> opportunity,
                   market_size  |-> cur \o Tenths(round1(size * mf, 10)) \o "M" ])
        trend(i, share, growth, interest, volume) ==
            Dict([ product        |-> products[i],
                   trend_score    |-> min(100, round(95 * gb * share, 1000)),
                   growth         |-> "+" \o ToString(round(growth * gb, 10)) \o "%",
                   interest_level |-> interest,
                   search_volume  |-> ToString(round(volume * mf, 10)) \o "K/month" ])
        sell(i, share, rating, reviews) ==
            Dict([ product    |-> products[i],
                   sales_rank |-> i,
                   revenue    |-> cur \o Tenths(round1(p_mult.base_revenue * mf * share, 1000)) \o "M",
                   rating     |-> rating,
                   reviews    |-> reviews ])
        comp(i, share, strength, weakness, rating) ==
            Dict([ competitor   |-> brands[i],
                   market_share |-> ToString(round(share * p_mult.competition_factor, 10)) \o "%",
                   strength     |-> strength,
                   weakness     |-> weakness,
                   rating       |-> rating ])
    IN  CASE lower(analysis_type) = "market gap" ->
               << gap(1, 85, IF platform = "Amazon" THEN "Medium" ELSE "Low", "High", 25),
                  gap(2, 78, "Low", "High", 18),
                  gap(3, 72, "Medium", "Medium", 12),
                  gap(4, 65, "High", "Low", 8),
                  gap(5, 80, "Low", "High", 15) >>
          [] lower(analysis_type) = "trending products" ->
               << trend(1, 100, 250, "Very High", p_mult.base_volume),
                  trend(2, 93, 180, "High", 120),
                  trend(3, 86, 160, "High", 100),
                  trend(4, 79, 120, "Medium", 80),
                  trend(5, 74, 100, "Medium", 65) >>
          [] lower(analysis_type) = "high selling products" ->
               << sell(1, 100, 48, "25,500"),
                  sell(2, 88, 46, "18,200"),
                  sell(3, 66, 45, "15,800"),
                  sell(4, 59, 47, "12,300"),
                  sell(5, 47, 44, "9,800") >>
          [] lower(analysis_type) = "competitor analysis" ->
               << comp(1, 35, "Brand Recognition", "High Pricing", "4.5/5"),
                  comp(2, 28, "Technology", "Limited Distribution", "4.3/5"),
                  comp(3, 18, "Affordability", "Quality Issues", "3.8/5"),
                  comp(4, 12, "Quality", "Niche Market", "4.7/5"),
                  comp(5, 7, "International Reach", "Local Support", "4.1/5") >>
          [] OTHER ->
               << Dict([ item |-> category \o " Analysis", value |-> "Available",
                         status |-> "Complete" ]) >>

(***************************************************************************)
(* Template recommendations (generate_enterprise_recommendations).  Each   *)
(* template is cut to its heading and the points that insert {category}.   *)
(***************************************************************************)
generate_enterprise_recommendations(analysis_type, category) ==
    CASE lower(analysis_type) = "market gap" ->
           "**SELLER ACTION PLAN: Market Gap Opportunities** 1. HIGH-PROFIT ENTRY STRATEGY: Target premium "
             \o category \o " segment with 78% demand but only 23% seller competition"
      [] lower(analysis_type) = "trending products" ->
           "**SELLER SUCCESS PLAN: Trend Capitalization** 1. RIDE THE WAVE: Launch "
             \o category \o " products NOW 6. TREND MONITORING: Set up Google Trends alerts for "
             \o category
      [] lower(analysis_type) = "high selling products" ->
           "**PROFIT MAXIMIZATION: Best Seller Strategy** 1. COPY SUCCESS PATTERNS: Analyze top "
             \o category \o " sellers"
      [] lower(analysis_type) = "competitor analysis" ->
           "**COMPETITIVE WARFARE: Beat Your Competition** 1. ATTACK WEAK POINTS: Target competitors with 3.9 or lower ratings"
      [] OTHER ->
           "**SELLER OPTIMIZATION STRATEGIES for " \o category \o "** 1. Market Research"

(***************************************************************************)
(* The external oracles.  An oracle's behaviour in one stage is a finite   *)
(* script of outcomes, one per call, repeated from its start when the      *)
(* stage calls more often than the script is long.                         *)
(***************************************************************************)
Outcome(script, n) == script[((n - 1) % Len(script)) + 1]

Repeat(o, n) == [ i \in 1..n |-> o ]

\* Search Oracle (tavily_search.run followed by json.dumps): it raises, or
\* returns a falsy result, or a result whose dump is `dump`.
SearchRaise == [ raises |-> TRUE,  truthy |-> FALSE, dump |-> "" ]
SearchEmpty == [ raises |-> FALSE, truthy |-> FALSE, dump |-> "{}" ]
SearchShort == [ raises |-> FALSE, truthy |-> TRUE,  dump |-> "\"abc\"" ]
SearchLong  == [ raises |-> FALSE, truthy |-> TRUE,
                 dump |-> "{\"query\": \"q\", \"results\": [{\"title\": \"Top sellers\", \"content\": \"Market report with products, prices and ratings\"}]}" ]

SearchOutcomes == { SearchRaise, SearchEmpty, SearchShort, SearchLong }

\* Extraction Oracle (extract_chain.invoke): it raises, or returns a parsed
\* JSON value that is a list of items or is not a list.
ExtractRaise   == [ raises |-> TRUE,  islist |-> FALSE, items |-> << >> ]
ExtractNonList == [ raises |-> FALSE, islist |-> FALSE, items |-> << >> ]
ExtractList(items) == [ raises |-> FALSE, islist |-> TRUE, items |-> items ]

\* A well-shaped answer of the Extraction Oracle for each analysis kind
OracleRecords(analysis_type) ==
    CASE analysis_type = "market gap" ->
           << Dict([ product |-> "Oracle Gadget", demand_score |-> 91, competition |-> "Low",
                     opportunity |-> "High", market_size |-> "$3.1M" ]),
              Dict([ product |-> "Oracle Widget", demand_score |-> 64, competition |-> "High",
                     opportunity |-> "Low", market_size |-> "$0.9M" ]) >>
      [] analysis_type = "trending products" ->
           << Dict([ product |-> "Oracle Gadget", trend_score |-> 97, growth |-> "+210%",
                     interest_level |-> "Very High", search_volume |-> "90K/month" ]),
              Dict([ product |-> "Oracle Widget", trend_score |-> 55, growth |-> "+40%",
                     interest_level |-> "Low", search_volume |-> "12K/month" ]) >>
      [] analysis_type = "high selling products" ->
           << Dict([ product |-> "Oracle Gadget", sales_rank |-> 1, revenue |-> "$4.0M",
                     rating |-> 49, reviews |-> "31.5K" ]),
              Dict([ product |-> "Oracle Widget", sales_rank |-> 2, revenue |-> "$1.1M",
                     rating |-> 41, reviews |-> "2.5K" ]) >>
      [] analysis_type = "competitor analysis" ->
           << Dict([ competitor |-> "Oracle Corp", market_share |-> "41%", strength |-> "Scale",
                     weakness |-> "Support", rating |-> "4.4/5" ]),
              Dict([ competitor |-> "Widget Inc", market_share |-> "9%", strength |-> "Price",
                     weakness |-> "Reach", rating |-> "3.9/5" ]) >>
      [] OTHER -> << >>

MalformedLists ==
    { << >>,                                                   \* []
      << Dict(<< >>) >>,                                       \* [{}]
      << Dict([ product |-> "Only Name" ]) >>,                 \* one field
      << Dict([ name |-> "Thing", price |-> "$5" ]) >>,        \* foreign fields
      << [ k |-> "str", f |-> [ text |-> "ab" ] ] >>,          \* ["ab"]
      << [ k |-> "num", f |-> [ value |-> 7 ] ] >> }           \* [7]

ExtractOutcomes(analysis_type) ==
    { ExtractRaise, ExtractNonList, ExtractList(OracleRecords(analysis_type)) }
      \cup { ExtractList(l) : l \in MalformedLists }

\* Summarization Oracle (summary_chain.invoke, rec_chain.invoke): it raises
\* or returns a text, possibly the empty one.
TextRaise == [ raises |-> TRUE, text |-> "" ]
TextEmpty == [ raises |-> FALSE, text |-> "" ]
SummaryText == [ raises |-> FALSE, text |-> "Oracle summary of the extracted records." ]
RecText == [ raises |-> FALSE, text |-> "1. Oracle recommendation." ]

SummaryOutcomes == { TextRaise, TextEmpty, SummaryText }
RecOutcomes == { TextRaise, TextEmpty, RecText }

(***************************************************************************)
(* Search: search_market_data and search_node.  `used` counts the calls    *)
(* already made to the Search Oracle in this stage.                        *)
(***************************************************************************)
ENTERPRISE_CONFIG == [ max_search_results |-> 25, max_retries |-> 10 ]

\* json.dumps({"results": [], "query": query, "response_time": 0.0, "status": status})
EmptyResultJson(query, status) ==
    "{\"results\": [], \"query\": \"" \o query
      \o "\", \"response_time\": 0.0, \"status\": \"" \o status \o "\"}"

RECURSIVE search_attempts(_, _, _, _)
search_attempts(query, script, used, attempt) ==
    IF attempt >= ENTERPRISE_CONFIG.max_retries
    THEN [ raw |-> EmptyResultJson(query, "enterprise_fallback"), calls |-> used ]
    ELSE LET o == Outcome(script, used + 1)
         IN  IF ~o.raises /\ o.truthy
             THEN [ raw |-> o.dump, calls |-> used + 1 ]
             ELSE search_attempts(query, script, used + 1, attempt + 1)

search_market_data(query, client, script, used) ==
    IF ~client
    THEN [ raw |-> EmptyResultJson(query, "fallback_mode"), calls |-> used ]
    ELSE search_attempts(query, script, used, 0)

SearchNodeRetries == 5
MinRawDataLen == 100

SearchQuery(state) ==
    state.category \o " " \o state.analysis_type \o " " \o state.platform
      \o " market analysis trends 2024 " \o state.region \o " " \o state.time_period

search_node_first_payload(query, client, script, used, attempt) ==
    [ update |-> [ raw_data |-> search_market_data(query, client, script, used).raw,
                   next |-> "extract" ],
      calls |-> search_market_data(query, client, script, used).calls ]

\* search_market_data catches every exception of the oracle itself, so the
\* except branch of search_node (the "limited_data" payload) has no caller.
RECURSIVE search_node_attempts(_, _, _, _, _)
search_node_attempts(query, client, script, used, attempt) ==
    IF attempt >= SearchNodeRetries
    THEN [ update |-> [ raw_data |-> "{\"results\": [], \"status\": \"fallback\"}",
                        next |-> "extract" ],
           calls |-> used ]
    ELSE LET r == search_market_data(query, client, script, used)
         IN  IF r.raw # "" /\ Len(r.raw) > MinRawDataLen
             THEN [ update |-> [ raw_data |-> r.raw, next |-> "extract" ],
                    calls |-> r.calls ]
             ELSE search_node_attempts(query, client, script, r.calls, attempt + 1)

search_node(state, client, script) ==
    search_node_attempts(SearchQuery(state), client, script, 0, 0)

(***************************************************************************)
(* Extract: process_market_data and extract_node.                          *)
(***************************************************************************)
SupportedKinds ==
    { "market gap", "trending products", "high selling products", "competitor analysis" }

\* process_market_data: table_fields, the field set asked of the oracle
market_gap_fields ==
    { "product", "demand_score", "competition", "opportunity", "market_size" }

trending_products_fields ==
    { "product", "trend_score", "growth", "interest_level", "search_volume" }

high_selling_products_fields ==
    { "product", "sales_rank", "revenue", "rating", "reviews" }

competitor_analysis_fields ==
    { "competitor", "market_share", "strength", "weakness", "rating" }

table_fields(analysis_type) ==
    CASE analysis_type = "market gap" -> market_gap_fields
      [] analysis_type = "trending products" -> trending_products_fields
      [] analysis_type = "high selling products" -> high_selling_products_fields
      [] analysis_type = "competitor analysis" -> competitor_analysis_fields

ExtractAttempts == 3

RECURSIVE extract_attempts(_, _, _, _)
extract_attempts(script, used, attempt, fallback) ==
    IF attempt >= ExtractAttempts
    THEN [ data |-> fallback, calls |-> used, fell |-> TRUE ]
    ELSE LET o == Outcome(script, used + 1)
         IN  IF ~o.raises /\ o.islist /\ Len(o.items) > 0
             THEN [ data |-> o.items, calls |-> used + 1, fell |-> FALSE ]
             ELSE extract_attempts(script, used + 1, attempt + 1, fallback)

process_market_data_default_kind(raw_data, analysis_type, category, platform, region, time_period, model, script) ==
    IF ~model \/ lower(analysis_type) \notin SupportedKinds
    THEN [ data  |-> generate_enhanced_fallback_data("market gap", category, platform, region, time_period),
           calls |-> 0, fell |-> TRUE ]
    ELSE extract_attempts(script, 0, 0,
             generate_enhanced_fallback_data(analysis_type, category, platform, region, time_period))

process_market_data(raw_data, analysis_type, category, platform, region, time_period, model, script) ==
    IF ~model
    THEN [ data  |-> generate_enhanced_fallback_data(analysis_type, category, platform, region, time_period),
           calls |-> 0, fell |-> TRUE ]
    ELSE IF lower(analysis_type) \notin SupportedKinds
    THEN [ data  |-> generate_enhanced_fallback_data("market gap", category, platform, region, time_period),
           calls |-> 0, fell |-> TRUE ]
    ELSE extract_attempts(script, 0, 0,
             generate_enhanced_fallback_data(analysis_type, category, platform, region, time_period))

\* len(item): the number of fields of a dict, the length of a string; a
\* number has no len() and the call raises TypeError.
HasLen(item) == item.k \in { "dict", "str" }
ItemLen(item) ==
    IF item.k = "dict" THEN Cardinality(DOMAIN item.f) ELSE Len(item.f.text)

extract_node_unchecked(r, fallback) ==
    [ update |-> [ extracted_data |-> IF Len(r.data) = 0 THEN fallback ELSE r.data,
                   next |-> "analyze" ],
      calls |-> r.calls, fell |-> r.fell \/ Len(r.data) = 0 ]

\* extract_node after process_market_data returned r: the validity test and
\* the two places that substitute the fallback records
extract_node_checked(r, fallback) ==
        IF Len(r.data) = 0
        THEN [ update |-> [ extracted_data |-> fallback, next |-> "analyze" ],
               calls |-> r.calls, fell |-> TRUE ]
        ELSE IF ~HasLen(r.data[1])
        THEN \* TypeError in the validity test, caught by the except branch
             [ update |-> [ extracted_data |-> fallback, next |-> "analyze" ],
               calls |-> r.calls, fell |-> TRUE ]
        ELSE IF ItemLen(r.data[1]) <= 1
        THEN [ update |-> [ extracted_data |-> fallback, next |-> "analyze" ],
               calls |-> r.calls, fell |-> TRUE ]
        ELSE [ update |-> [ extracted_data |-> r.data, next |-> "analyze" ],
               calls |-> r.calls, fell |-> r.fell ]

extract_node(state, model, script) ==
    extract_node_checked(
        process_market_data(state.raw_data, state.analysis_type, state.category,
                            state.platform, state.region, state.time_period, model, script),
        generate_enhanced_fallback_data(state.analysis_type, state.category,
                            state.platform, state.region, state.time_period))

(***************************************************************************)
(* Analyze: generate_analysis and analyze_node.  One attempt calls the     *)
(* summary chain, then the recommendations chain, inside one try block.    *)
(***************************************************************************)
AnalysisAttempts == 3

RECURSIVE analysis_attempts(_, _, _, _, _, _, _)
analysis_attempts_recalling(sscript, rscript, attempt, summary, recs, scalls, rcalls) ==
    IF attempt >= AnalysisAttempts
    THEN [ summary |-> summary, recs |-> recs, scalls |-> scalls, rcalls |-> rcalls ]
    ELSE LET so     == Outcome(sscript, scalls + 1)
             summ1  == IF ~so.raises THEN so.text ELSE summary
             ro     == Outcome(rscript, rcalls + 1)
             callR  == ~so.raises /\ recs = ""
             rec1   == IF callR /\ ~ro.raises THEN ro.text ELSE recs
             rc1    == IF callR THEN rcalls + 1 ELSE rcalls
         IN  IF ~so.raises /\ ~(callR /\ ro.raises) /\ summ1 # "" /\ rec1 # ""
             THEN [ summary |-> summ1, recs |-> rec1, scalls |-> scalls + 1, rcalls |-> rc1 ]
             ELSE analysis_attempts(sscript, rscript, attempt + 1, summ1, rec1, scalls + 1, rc1)

analysis_attempts(sscript, rscript, attempt, summary, recs, scalls, rcalls) ==
    IF attempt >= AnalysisAttempts
    THEN [ summary |-> summary, recs |-> recs, scalls |-> scalls, rcalls |-> rcalls ]
    ELSE LET so     == Outcome(sscript, scalls + 1)
             callS  == summary = ""
             sRaise == callS /\ so.raises
             summ1  == IF callS /\ ~so.raises THEN so.text ELSE summary
             sc1    == IF callS THEN scalls + 1 ELSE scalls
             ro     == Outcome(rscript, rcalls + 1)
             callR  == ~sRaise /\ recs = ""
             rec1   == IF callR /\ ~ro.raises THEN ro.text ELSE recs
             rc1    == IF callR THEN rcalls + 1 ELSE rcalls
         IN  IF ~sRaise /\ ~(callR /\ ro.raises) /\ summ1 # "" /\ rec1 # ""
             THEN [ summary |-> summ1, recs |-> rec1, scalls |-> sc1, rcalls |-> rc1 ]
             ELSE analysis_attempts(sscript, rscript, attempt + 1, summ1, rec1, sc1, rc1)

generate_analysis(data, analysis_type, model, sscript, rscript) ==
    IF ~model
    THEN [ analysis |->
             [ summary |-> "Enterprise-level " \o analysis_type
                             \o " analysis completed with comprehensive market data processing.",
               recommendations |-> generate_enterprise_recommendations(analysis_type, "market") ],
           scalls |-> 0, rcalls |-> 0 ]
    ELSE LET r == analysis_attempts(sscript, rscript, 0, "", "", 0, 0)
         IN  [ analysis |->
                 [ summary |->
                     IF r.summary = ""
                     THEN "Enterprise-level " \o analysis_type
                            \o " analysis completed with advanced market intelligence processing."
                     ELSE r.summary,
                   recommendations |->
                     IF r.recs = ""
                     THEN generate_enterprise_recommendations(analysis_type, "market")
                     ELSE r.recs ],
               scalls |-> r.scalls, rcalls |-> r.rcalls ]

\* generate_analysis raises nothing past its own try block, so the except
\* branch of analyze_node has no caller.
analyze_node_checked(r, state) ==
    [ update |->
        [ analysis |->
            [ summary |->
                IF r.analysis.summary = ""
                THEN "Enterprise-level " \o state.analysis_type
                       \o " analysis completed for " \o state.category \o " market."
                ELSE r.analysis.summary,
              recommendations |->
                IF r.analysis.recommendations = ""
                THEN generate_enterprise_recommendations(state.analysis_type, state.category)
                ELSE r.analysis.recommendations ],
          next |-> "visualize" ],
      scalls |-> r.scalls, rcalls |-> r.rcalls ]

analyze_node_bare(state, model, sscript, rscript) ==
    IF ~model
    THEN [ update |-> [ analysis |-> [ summary |-> "", recommendations |-> "" ],
                        next |-> "visualize" ],
           scalls |-> 0, rcalls |-> 0 ]
    ELSE [ update |->
             [ analysis |->
                 [ summary |-> analysis_attempts(sscript, rscript, 0, "", "", 0, 0).summary,
                   recommendations |-> analysis_attempts(sscript, rscript, 0, "", "", 0, 0).recs ],
               next |-> "visualize" ],
           scalls |-> analysis_attempts(sscript, rscript, 0, "", "", 0, 0).scalls,
           rcalls |-> analysis_attempts(sscript, rscript, 0, "", "", 0, 0).rcalls ]

analyze_node(state, model, sscript, rscript) ==
    analyze_node_checked(
        generate_analysis(state.extracted_data, state.analysis_type, model, sscript, rscript),
        state)

(***************************************************************************)
(* Visualize: the chart recipes, create_analysis_chart,                    *)
(* create_fallback_charts and visualize_node.  The rendering collaborator  *)
(* is an oracle too: a script of booleans, one per recipe run, FALSE when  *)
(* the recipe raises while drawing.  A chart handle is a string.           *)
(***************************************************************************)
AllDicts(data) == \A i \in 1..Len(data) : data[i].k = "dict"

AllHave(data, keys) ==
    \A i \in 1..Len(data) : data[i].k = "dict" /\ keys \subseteq DOMAIN data[i].f

\* item.get('product', 'N/A') for item in data[:3]
SampleRaises(data) == \E i \in 1..min(3, Len(data)) : data[i].k # "dict"

ChartsOf(analysis_type) == [ i \in 1..3 |-> analysis_type \o " chart " \o ToString(i) ]

\* the columns the recipes index: df['trend_score'], df['market_share'], ...
trending_chart_columns == { "product", "trend_score", "growth", "search_volume" }

competitor_chart_columns == { "competitor", "market_share", "rating" }

\* create_market_gap_charts, create_trending_products_charts,
\* create_high_selling_charts, create_competitor_charts: three charts, or
\* the empty list when the recipe raises.
chart_recipe(data, analysis_type, drawn) ==
    LET indexed ==
          CASE analysis_type = "market gap" -> AllHave(data, { "product" })
            [] analysis_type = "trending products" ->
                 AllHave(data, trending_chart_columns)
            [] analysis_type = "high selling products" ->
                 /\ ~SampleRaises(data)
                 /\ \/ ~(ItemLen(data[1]) > 1 /\ "product" \in DOMAIN data[1].f)
                    \/ AllHave(data, { "product" })
            [] analysis_type = "competitor analysis" ->
                 AllHave(data, competitor_chart_columns)
    IN  IF drawn /\ indexed THEN ChartsOf(analysis_type) ELSE << >>

\* result: the charts and the number of recipe runs
create_analysis_chart(data, analysis_type, script, used) ==
    IF Len(data) = 0 THEN [ charts |-> << >>, runs |-> used ]
    ELSE IF lower(analysis_type) \in SupportedKinds
    THEN [ charts |-> chart_recipe(data, lower(analysis_type), Outcome(script, used + 1)),
           runs   |-> used + 1 ]
    ELSE [ charts |-> << >>, runs |-> used ]

EmptyChart == "{}"

charts_as_made(r) == r

\* return charts if charts else ['{}']
charts_or_empty(r) ==
    [ charts |-> IF Len(r.charts) > 0 THEN r.charts ELSE << EmptyChart >>, runs |-> r.runs ]

\* create_fallback_charts once `data` is what it will draw
create_fallback_charts_of(data, analysis_type, script, used) ==
    IF Len(data) > 0 /\ data[1].k = "dict" /\ ItemLen(data[1]) > 1
    THEN charts_or_empty(create_analysis_chart(data, analysis_type, script, used))
    ELSE [ charts |-> << EmptyChart >>, runs |-> used ]

create_fallback_charts(data, analysis_type, category, platform, country, time_range, script, used) ==
    create_fallback_charts_of(
        IF Len(data) = 0
        THEN generate_enhanced_fallback_data(analysis_type, category, platform, country, time_range)
        ELSE data,
        analysis_type, script, used)

chart_update_resetting(r) ==
    [ update |-> [ chart |-> r.charts, next |-> "supervisor", extracted_data |-> << >> ],
      runs |-> r.runs ]

\* return {"chart": charts, "next": "supervisor"}
chart_update(r) ==
    [ update |-> [ chart |-> r.charts, next |-> "supervisor" ], runs |-> r.runs ]

visualize_node_unretried(r, state, script) == chart_update(charts_or_empty(r))

\* visualize_node after create_analysis_chart returned r
visualize_node_checked(r, state, script) ==
    IF Len(r.charts) = 0
    THEN chart_update(create_fallback_charts(state.extracted_data, state.analysis_type,
                          state.category, state.platform, state.region, state.time_period,
                          script, r.runs))
    ELSE chart_update(r)

visualize_node(state, script) ==
    IF SampleRaises(state.extracted_data)
    THEN \* AttributeError while logging the sample, caught by the except branch
         chart_update(create_fallback_charts(state.extracted_data, state.analysis_type,
                          state.category, state.platform, state.region, state.time_period,
                          script, 0))
    ELSE visualize_node_checked(
             create_analysis_chart(state.extracted_data, state.analysis_type, script, 0),
             state, script)

(***************************************************************************)
(* Supervisor and graph (supervisor_node, StateGraph edges).               *)
(***************************************************************************)
supervisor_node_unordered(state) ==
    IF Len(state.extracted_data) = 0 THEN [ next |-> "extract", max_retries |-> state.max_retries ]
    ELSE IF state.raw_data = "" THEN [ next |-> "search", max_retries |-> state.max_retries ]
    ELSE IF DOMAIN state.analysis = {} THEN [ next |-> "analyze", max_retries |-> state.max_retries ]
    ELSE IF Len(state.chart) = 0 THEN [ next |-> "visualize", max_retries |-> state.max_retries ]
    ELSE [ next |-> "FINISH", max_retries |-> state.max_retries ]

supervisor_node(state) ==
    IF state.raw_data = "" THEN [ next |-> "search", max_retries |-> state.max_retries ]
    ELSE IF Len(state.extracted_data) = 0 THEN [ next |-> "extract", max_retries |-> state.max_retries ]
    ELSE IF DOMAIN state.analysis = {} THEN [ next |-> "analyze", max_retries |-> state.max_retries ]
    ELSE IF Len(state.chart) = 0 THEN [ next |-> "visualize", max_retries |-> state.max_retries ]
    ELSE [ next |-> "FINISH", max_retries |-> state.max_retries ]

\* add_conditional_edges("supervisor", lambda x: x["next"], {...})
route(next) == IF next = "FINISH" THEN "END" ELSE next

\* a node's partial update merged into the state
Merge(state, update) ==
    [ key \in DOMAIN state |-> IF key \in DOMAIN update THEN update[key] ELSE state[key] ]

\* agent_orchestrator: "Initialize state".  The empty chart, the string ""
\* in the source, is the empty sequence here; both are falsy.
InitialState(request) ==
    [ messages       |-> << >>,
      next           |-> "search",
      raw_data       |-> "",
      extracted_data |-> << >>,
      analysis       |-> << >>,
      chart          |-> << >>,
      analysis_type  |-> request.analysis_type,
      category       |-> request.category,
      platform       |-> request.platform,
      region         |-> request.region,
      time_period    |-> request.time_period,
      max_retries    |-> 0 ]

(***************************************************************************)
(* The persisted result file (save_results_tool, load_results_tool).  The  *)
(* file is absent, or holds a JSON document, or holds text that is not     *)
(* valid JSON.  json.dump followed by json.load returns the dict it was    *)
(* given: every value saved is a str, int, float, list or str-keyed dict.  *)
(* A timestamp is the reading of the clock `now`.                          *)
(***************************************************************************)
\* how a call ends: it returns v, or an exception leaves it; NoReturn before
\* any call has ended
Returned(v) == [ kind |-> "value", v |-> v ]
Raised == [ kind |-> "raise" ]
NoReturn == [ kind |-> "none" ]

NoFile == [ exists |-> FALSE ]
BrokenFile == [ exists |-> TRUE, valid |-> FALSE ]
JsonFile(doc) == [ exists |-> TRUE, valid |-> TRUE, doc |-> doc ]

SaveOutcomes == { "ok", "open fails", "write fails" }
LoadOutcomes == { "ok", "read fails" }

\* data[key] = value on a dict
Put(data, key, value) ==
    [ kk \in DOMAIN data \cup { key } |-> IF kk = key THEN value ELSE data[kk] ]

save_results_tool_unstamped(data, file, now, io) ==
    [ data |-> Put(Put(data, "timestamp", now), "version", "1.0"),
      file |-> JsonFile(data),
      msg  |-> "Results saved successfully" ]

\* result: the dict as the call leaves it (it is updated in place), the
\* file and the returned message
save_results_tool(data, file, now, io) ==
    LET stamped == Put(Put(data, "timestamp", now), "version", "1.0")
    IN  CASE io = "ok" ->
               [ data |-> stamped, file |-> JsonFile(stamped),
                 msg |-> "Results saved successfully" ]
          [] io = "open fails" ->
               [ data |-> stamped, file |-> file,
                 msg |-> "Error saving results: Permission denied" ]
          [] io = "write fails" ->
               [ data |-> stamped, file |-> BrokenFile,
                 msg |-> "Error saving results: No space left on device" ]

required_keys == { "summary", "tables", "charts", "recommendations" }

\* the try block of load_results_tool: open() or json.load() may raise
load_results_try(file, io) ==
    IF ~file.exists
    THEN Returned([ summary |-> "No saved results found. Run an analysis first.",
                    tables |-> << >>,
                    charts |-> << >>,
                    recommendations |-> "Start by running a market analysis query." ])
    ELSE IF io = "read fails" THEN [ kind |-> "raise", msg |-> "Permission denied" ]
    ELSE IF ~file.valid THEN [ kind |-> "raise", msg |-> "Expecting value" ]
    ELSE Returned([ key \in DOMAIN file.doc \cup required_keys |->
                      IF key \in DOMAIN file.doc THEN file.doc[key]
                      ELSE IF key = "tables" \/ key = "charts" THEN << >> ELSE "" ])

load_results_tool_unguarded(file, io) == load_results_try(file, io)

load_results_tool(file, io) ==
    LET r == load_results_try(file, io)
    IN  IF r.kind = "raise"
        THEN Returned([ summary |-> "Error loading results: " \o r.msg,
                        tables |-> << >>,
                        charts |-> << >>,
                        recommendations |-> "Check file permissions and try again." ])
        ELSE r

(***************************************************************************)
(* Orchestrator (agent_orchestrator): the envelope of a completed run, the *)
(* envelope of the catch-all handler, and the save before returning.       *)
(***************************************************************************)
StatusComplete ==
    "Seller-focused analysis complete - Multiple professional charts with real product names generated"
StatusRecovered ==
    "Seller-focused analysis complete with real product data - Multiple professional charts generated"

result_without_tables(final_state) ==
    [ summary         |-> final_state.analysis.summary,
      tables          |-> << >>,
      charts          |-> final_state.chart,
      recommendations |-> final_state.analysis.recommendations,
      status          |-> StatusComplete ]

result(final_state) ==
    [ summary         |-> final_state.analysis.summary,
      tables          |-> << final_state.extracted_data >>,
      charts          |-> final_state.chart,
      recommendations |-> final_state.analysis.recommendations,
      status          |-> StatusComplete ]

error_result_as_complete(request, script) ==
    [ summary |-> "E-commerce seller analysis completed.",
      tables |-> << generate_enhanced_fallback_data("market gap", request.category,
                        request.platform, request.region, request.time_period) >>,
      charts |-> << EmptyChart >>,
      recommendations |-> generate_enterprise_recommendations("market gap", request.category),
      status |-> StatusComplete ]

error_result(request, script) ==
    [ summary |->
        "E-commerce seller analysis successfully generated comprehensive market insights with real product names and seller-focused data for your "
          \o request.category \o " market research.",
      tables |-> << generate_enhanced_fallback_data("market gap", request.category,
                        request.platform, request.region, request.time_period) >>,
      charts |-> create_fallback_charts(<< >>, "market gap", request.category, request.platform,
                        request.region, request.time_period, script, 0).charts,
      recommendations |-> generate_enterprise_recommendations("market gap", request.category),
      status |-> StatusRecovered ]

\* "load" and "result" in the question: return load_results_tool().  The
\* call sits in the try block whose handler reads `category`, not yet
\* assigned at this point, so an exception of the load would leave the
\* orchestrator as an UnboundLocalError.
agent_orchestrator_load(file, io) ==
    LET r == load_results_tool(file, io)
    IN  IF r.kind = "raise" THEN Raised ELSE r

\* save_results_tool(arg) as the last statement before the return: what the
\* call returns, the file, and the dict handed to save_results_tool as it
\* was before the call (`arg`)
saved_and_returned(arg, saved, path) ==
    [ ret |-> Returned(saved.data), file |-> saved.file, path |-> path,
      saved |-> TRUE, arg |-> Returned(arg) ]

save_and_return(arg, file, now, io, path) ==
    saved_and_returned(arg, save_results_tool(arg, file, now, io), path)

\* The try block after workflow.invoke: logging the sample of the final
\* records raises on a record that is not a dict; otherwise the result is
\* built, saved and returned.
agent_orchestrator_try(final_state, file, now, io) ==
    IF SampleRaises(final_state.extracted_data)
    THEN [ ret |-> Raised, file |-> file, path |-> "raise", saved |-> FALSE,
           arg |-> NoReturn ]
    ELSE save_and_return(result(final_state), file, now, io, "normal")

agent_orchestrator_except_unsaved(request, file, now, io, script) ==
    [ ret |-> Returned(error_result(request, script)), file |-> file, path |-> "catchall",
      saved |-> FALSE, arg |-> NoReturn ]

\* except Exception: the fallback envelope is built, saved and returned
agent_orchestrator_except(request, file, now, io, script) ==
    save_and_return(error_result(request, script), file, now, io, "catchall")

\* try ... except Exception
caught(attempt, handler) == IF attempt.ret.kind = "raise" THEN handler ELSE attempt

agent_orchestrator_uncaught(final_state, request, file, now, io, script) ==
    agent_orchestrator_try(final_state, file, now, io)

\* agent_orchestrator from the return of workflow.invoke on
agent_orchestrator_package(final_state, request, file, now, io, script) ==
    caught(agent_orchestrator_try(final_state, file, now, io),
           agent_orchestrator_except(request, file, now, io, script))

(***************************************************************************)
(* Bounds and inputs                                                       *)
(***************************************************************************)
\* saves in one behaviour of Spec: every save takes the next reading of the clock
MaxClock == 1

\* saves in one behaviour of SpecSeq
MaxRuns == 2

\* app.py builds the request text of an analysis from the form fields
UserQuery(analysis_type, category, platform, country, time_range) ==
    "Perform a '" \o analysis_type \o "' analysis for '" \o category \o "' on '" \o platform
      \o "' in '" \o country \o "' for '" \o time_range
      \o "'. Provide detailed insights, data tables, and visualizations."

RunQuestions ==
    { "Perform a 'Market Gap' analysis for 'smart home devices' on 'Amazon' in 'US' for 'Last Month'.",
      UserQuery("Trending Products", "electronics", "eBay", "UK", "Last Week"),
      UserQuery("High Selling Products", "garden tools", "Etsy", "JP", "Last Year"),
      UserQuery("Competitor Analysis", "skincare products", "Walmart", "DE", "Last 6 Months"),
      "hello" }

LoadQuestions ==
    { "load my results",
      "Please reload the 'Market Gap' results for 'electronics' on 'eBay'." }

Questions == RunQuestions \cup LoadQuestions

SearchScripts ==
    { << a >> : a \in SearchOutcomes }
      \cup { << SearchRaise, SearchLong >>, << SearchShort, SearchLong >> }
      \cup { Repeat(SearchRaise, 9) \o << b >> : b \in { SearchShort, SearchLong } }
      \cup { Repeat(SearchRaise, 10) \o << SearchLong >> }

ExtractScripts(analysis_type) ==
    { << a >> : a \in ExtractOutcomes(analysis_type) }
      \cup { << ExtractRaise, ExtractList(OracleRecords(analysis_type)) >>,
             << ExtractNonList, ExtractRaise, ExtractList(OracleRecords(analysis_type)) >>,
             Repeat(ExtractRaise, 3) \o << ExtractList(OracleRecords(analysis_type)) >> }

SummaryScripts ==
    { << a >> : a \in SummaryOutcomes } \cup { << TextRaise, SummaryText >> }

RecScripts ==
    { << a >> : a \in RecOutcomes } \cup { << TextRaise, RecText >> }

RenderScripts == { << TRUE >>, << FALSE >>, << FALSE, TRUE >> }

\* the stage returned something other than the output of its oracle
search_fell(script, r) ==
    r.calls = 0 \/ Outcome(script, r.calls).dump # r.update.raw_data

analyze_fell(sscript, rscript, r) ==
    \/ r.scalls = 0 \/ Outcome(sscript, r.scalls).text # r.update.analysis.summary
    \/ r.rcalls = 0 \/ Outcome(rscript, r.rcalls).text # r.update.analysis.recommendations

visualize_fell(state, script) ==
    \/ SampleRaises(state.extracted_data)
    \/ Len(create_analysis_chart(state.extracted_data, state.analysis_type, script, 0).charts) = 0

\* every call recorded so far raised
AllRaise(script, calls) == \A n \in 1..calls : Outcome(script, n).raises

(***************************************************************************)
(* State                                                                   *)
(***************************************************************************)
VARIABLES
    pc,             \* "import", "import_error", "idle" (no call in progress), "graph"
    llm,            \* the LLM client was created at import (llm is not None)
    tavily_search,  \* the search client was created at import
    question,       \* the request text of the current or last call
    request,        \* analysis_type, category, platform, region, time_period of the call
    node,           \* the graph node to run next
    state,          \* AgentState of the run in progress
    file,           \* RESULTS_FILE
    now,            \* the clock
    ret,            \* what the last call returned
    path,           \* how it returned: "load", "normal", "catchall"; "none" during a run
    trace,          \* the nodes the current or last call has run, in order
    oracles,        \* an oracle was called by the current or last call
    threw,          \* every Search, Extraction and Summarization Oracle call of it raised
    saves,          \* save_results_tool invocations of the current or last call
    saved,          \* the dict handed to the latest save_results_tool call, as it was then
    io,             \* how the latest operation on the file went
    last,           \* the stage that has just returned to the supervisor: its oracle
                    \* script and the number of oracle calls it made
    fell,           \* a stage of the current or last call substituted fallback data
    race            \* callers of save_results_tool that run side by side: the blocks
                    \* RESULTS_FILE holds, and for each caller its dict and how many
                    \* blocks it has written

vars == << pc, llm, tavily_search, question, request, node, state, file, now, ret, path,
           trace, oracles, threw, saves, saved, io, last, fell, race >>

NoRequest == parse_query("")

(***************************************************************************)
(* RESULTS_FILE under callers that run side by side.  json.dump goes       *)
(* through a buffered file object, so a document reaches the file as a     *)
(* sequence of blocks, one write() per block, each caller writing at the   *)
(* offset of its own file object; open(RESULTS_FILE, 'w') empties the      *)
(* file.  A document is BlockCount blocks long: the first holds the keys   *)
(* HeadKeys, the last the keys TailKeys.  The documents compared are those *)
(* of runs of one request, whose texts have the same length.               *)
(***************************************************************************)
BlockCount == 2
HeadKeys == { "summary", "tables", "charts" }
TailKeys == { "recommendations", "status", "timestamp", "version" }
BlockKeys(n) == IF n = 1 THEN HeadKeys ELSE TailKeys

\* bytes that no write has set (a write past the end of the file)
Hole == [ n |-> 0, f |-> << >> ]

\* json.dump(data, f, indent=2, ensure_ascii=False): the blocks of the text
json_dump(data) ==
    [ n \in 1..BlockCount |->
        [ n |-> n, f |-> [ key \in BlockKeys(n) \cap DOMAIN data |-> data[key] ] ] ]

\* json.load(f): the text parses when it is the first block of a document
\* followed by the last block of a document, and gives the keys of both
json_load(content) ==
    IF /\ Len(content) = BlockCount
       /\ \A n \in 1..BlockCount : content[n].n = n
    THEN [ valid |-> TRUE,
           doc |-> [ key \in DOMAIN content[1].f \cup DOMAIN content[BlockCount].f |->
                       IF key \in DOMAIN content[1].f THEN content[1].f[key]
                       ELSE content[BlockCount].f[key] ] ]
    ELSE [ valid |-> FALSE ]

\* f.write(block) at the offset pos of the file object
write_at(content, pos, block) ==
    [ i \in 1..(IF Len(content) > pos THEN Len(content) ELSE pos) |->
        IF i = pos THEN block
        ELSE IF i <= Len(content) THEN content[i] ELSE Hole ]

\* the file as load_results_tool finds it
FileOf(content) ==
    IF json_load(content).valid THEN JsonFile(json_load(content).doc) ELSE BrokenFile

Writers == { 1, 2 }
NotOpened == 0 - 1
NoRace ==
    [ content |-> << >>,
      at      |-> [ w \in Writers |-> NotOpened ],
      data    |-> [ w \in Writers |-> NoReturn ] ]

\* the results of two runs of one request, as agent_orchestrator hands them
\* to save_results_tool
RaceSummaries ==
    { "Oracle summary of the extracted records.", "Oracle summary of the records extracted." }
RaceResult(summary) ==
    [ summary         |-> summary,
      tables          |-> << OracleRecords("market gap") >>,
      charts          |-> ChartsOf("market gap"),
      recommendations |-> RecText.text,
      status          |-> StatusComplete ]

NoStage == [ stage |-> "none" ]

\* the state before the module is imported; q is the text of the first request
Start(q) ==
    /\ pc = "import"
    /\ llm = FALSE
    /\ tavily_search = FALSE
    /\ question = q
    /\ request = NoRequest
    /\ node = "supervisor"
    /\ state = InitialState(NoRequest)
    /\ file = NoFile
    /\ now = 0
    /\ ret = NoReturn
    /\ path = "none"
    /\ trace = << >>
    /\ oracles = FALSE
    /\ threw = TRUE
    /\ saves = 0
    /\ saved = NoReturn
    /\ io = "ok"
    /\ last = NoStage
    /\ fell = FALSE
    /\ race = NoRace

Init == Start("")

(***************************************************************************)
(* Import of the module: the two clients are created, each attempt falling *)
(* back to None; extract_tool then reads tavily_extract.run, which raises  *)
(* AttributeError when the search client is None.                          *)
(***************************************************************************)
Import ==
    /\ pc = "import"
    /\ \E llm_ok \in BOOLEAN, tavily_ok \in BOOLEAN :
         /\ llm' = llm_ok
         /\ tavily_search' = tavily_ok
         /\ pc' = IF tavily_ok THEN "idle" ELSE "import_error"
    /\ UNCHANGED << question, request, node, state, file, now, ret, path, trace, oracles,
                    threw, saves, saved, io, last, fell >>
    /\ UNCHANGED race

(***************************************************************************)
(* agent_orchestrator, from the call to the start of workflow.invoke       *)
(***************************************************************************)
Call(q, ios, limit) ==
    /\ pc = "idle"
    /\ question' = q
    /\ trace' = << >>
    /\ oracles' = FALSE
    /\ threw' = TRUE
    /\ saves' = 0
    /\ last' = NoStage
    /\ fell' = FALSE
    /\ IF IsLoadRequest(q)
       THEN /\ \E outcome \in ios :
                 /\ ret' = agent_orchestrator_load(file, outcome)
                 /\ io' = IF file.exists THEN outcome ELSE io
            /\ path' = "load"
            /\ UNCHANGED << pc, request, node, state >>
       ELSE /\ now < limit
            /\ request' = parse_query(q)
            /\ state' = InitialState(request')
            /\ node' = "supervisor"
            /\ pc' = "graph"
            /\ ret' = NoReturn
            /\ path' = "none"
            /\ io' = io
    /\ UNCHANGED << llm, tavily_search, file, now, saved >>
    /\ UNCHANGED race

(***************************************************************************)
(* workflow.invoke: one action per node of the graph.  The source passes   *)
(* no recursion limit and supervisor_node counts nothing.                  *)
(***************************************************************************)
Supervisor ==
    /\ pc = "graph" /\ node = "supervisor"
    /\ state' = Merge(state, supervisor_node(state))
    /\ node' = route(supervisor_node(state).next)
    /\ trace' = Append(trace, "supervisor")
    /\ last' = NoStage
    /\ UNCHANGED << pc, llm, tavily_search, question, request, file, now, ret, path,
                    oracles, threw, saves, saved, io, fell >>
    /\ UNCHANGED race

Search(scripts) ==
    /\ pc = "graph" /\ node = "search"
    /\ \E script \in scripts :
         \E r \in { search_node(state, tavily_search, script) } :
             /\ state' = Merge(state, r.update)
             /\ oracles' = (oracles \/ r.calls > 0)
             /\ threw' = (threw /\ AllRaise(script, r.calls))
             /\ last' = [ stage |-> "search", script |-> script, calls |-> r.calls ]
             /\ fell' = (fell \/ search_fell(script, r))
    /\ node' = "supervisor"
    /\ trace' = Append(trace, "search")
    /\ UNCHANGED << pc, llm, tavily_search, question, request, file, now, ret, path, saves,
                    saved, io >>
    /\ UNCHANGED race

Extract(scripts) ==
    /\ pc = "graph" /\ node = "extract"
    /\ \E script \in scripts :
         \E r \in { extract_node(state, llm, script) } :
             /\ state' = Merge(state, r.update)
             /\ oracles' = (oracles \/ r.calls > 0)
             /\ threw' = (threw /\ AllRaise(script, r.calls))
             /\ last' = [ stage |-> "extract", script |-> script, calls |-> r.calls,
                          fell |-> r.fell ]
             /\ fell' = (fell \/ r.fell)
    /\ node' = "supervisor"
    /\ trace' = Append(trace, "extract")
    /\ UNCHANGED << pc, llm, tavily_search, question, request, file, now, ret, path, saves,
                    saved, io >>
    /\ UNCHANGED race

Analyze(sscripts, rscripts) ==
    /\ pc = "graph" /\ node = "analyze"
    /\ \E sscript \in sscripts, rscript \in rscripts :
         \E r \in { analyze_node(state, llm, sscript, rscript) } :
             /\ state' = Merge(state, r.update)
             /\ oracles' = (oracles \/ r.scalls + r.rcalls > 0)
             /\ threw' = (threw /\ AllRaise(sscript, r.scalls) /\ AllRaise(rscript, r.rcalls))
             /\ last' = [ stage |-> "analyze", sscript |-> sscript, rscript |-> rscript,
                          scalls |-> r.scalls, rcalls |-> r.rcalls ]
             /\ fell' = (fell \/ analyze_fell(sscript, rscript, r))
    /\ node' = "supervisor"
    /\ trace' = Append(trace, "analyze")
    /\ UNCHANGED << pc, llm, tavily_search, question, request, file, now, ret, path, saves,
                    saved, io >>
    /\ UNCHANGED race

Visualize(scripts) ==
    /\ pc = "graph" /\ node = "visualize"
    /\ \E script \in scripts :
         \E r \in { visualize_node(state, script) } :
             /\ state' = Merge(state, r.update)
             /\ last' = [ stage |-> "visualize", script |-> script, runs |-> r.runs ]
         /\ fell' = (fell \/ visualize_fell(state, script))
    /\ node' = "supervisor"
    /\ trace' = Append(trace, "visualize")
    /\ UNCHANGED << pc, llm, tavily_search, question, request, file, now, ret, path,
                    oracles, threw, saves, saved, io >>
    /\ UNCHANGED race

(***************************************************************************)
(* agent_orchestrator, from the return of workflow.invoke to its own       *)
(***************************************************************************)
Finish(ios, scripts) ==
    /\ pc = "graph" /\ node = "END"
    /\ \E outcome \in ios, script \in scripts :
         \E r \in { agent_orchestrator_package(state, request, file, now + 1, outcome, script) } :
             /\ ret' = r.ret
             /\ file' = r.file
             /\ path' = r.path
             /\ saved' = IF r.saved THEN r.arg ELSE saved
             /\ saves' = IF r.saved THEN saves + 1 ELSE saves
             /\ now' = IF r.saved THEN now + 1 ELSE now
             /\ io' = IF r.saved THEN outcome ELSE io
    /\ pc' = "idle"
    /\ UNCHANGED << llm, tavily_search, question, request, node, state, trace, oracles, threw,
                    last, fell >>
    /\ UNCHANGED race

(***************************************************************************)
(* The Save and Load buttons of the dashboard (app.py): they call          *)
(* save_results_tool on the result in the session and load_results_tool.   *)
(***************************************************************************)
SaveButton(ios, limit) ==
    /\ pc = "idle" /\ ret.kind = "value"
    /\ now < limit
    /\ \E outcome \in ios :
         \E r \in { save_results_tool(ret.v, file, now + 1, outcome) } :
             /\ ret' = Returned(r.data)
             /\ file' = r.file
             /\ io' = outcome
    /\ saved' = ret
    /\ now' = now + 1
    /\ path' = "save button"
    /\ UNCHANGED << pc, llm, tavily_search, question, request, node, state, trace, oracles,
                    threw, saves, last, fell >>
    /\ UNCHANGED race

LoadButton(ios) ==
    /\ pc = "idle"
    /\ \E outcome \in ios :
         \E r \in { load_results_tool(file, outcome) } :
             /\ ret' = IF r.kind = "value" /\ r.v.summary # "" THEN r ELSE ret
             /\ path' = IF r.kind = "value" /\ r.v.summary # "" THEN "load button" ELSE "warning"
             /\ io' = IF file.exists THEN outcome ELSE io
    /\ UNCHANGED << pc, llm, tavily_search, question, request, node, state, file, now, trace,
                    oracles, threw, saves, saved, last, fell >>
    /\ UNCHANGED race

(***************************************************************************)
(* save_results_tool and load_results_tool of callers that run side by     *)
(* side: a save is the open and then one step per block written, a load    *)
(* reads the file as it is between two such steps.                         *)
(***************************************************************************)
\* data["timestamp"] = ...; data["version"] = "1.0"; open(RESULTS_FILE, 'w')
SaveOpen(w) ==
    /\ race.at[w] = NotOpened
    /\ \E summary \in RaceSummaries :
         \E r \in { save_results_tool(RaceResult(summary), file, now + 1, "ok") } :
             race' = [ race EXCEPT !.content = << >>, !.at[w] = 0, !.data[w] = r.data ]
    /\ file' = FileOf(<< >>)
    /\ now' = now + 1
    /\ UNCHANGED << pc, llm, tavily_search, question, request, node, state, ret, path, trace,
                    oracles, threw, saves, saved, io, last, fell >>

\* json.dump(data, f, ...): the next block; the last one is written on close
SaveWrite(w) ==
    /\ race.at[w] >= 0 /\ race.at[w] < BlockCount
    /\ \E content \in { write_at(race.content, race.at[w] + 1,
                                 json_dump(race.data[w])[race.at[w] + 1]) } :
         /\ race' = [ race EXCEPT !.content = content, !.at[w] = race.at[w] + 1 ]
         /\ file' = FileOf(content)
    /\ UNCHANGED << pc, llm, tavily_search, question, request, node, state, now, ret, path,
                    trace, oracles, threw, saves, saved, io, last, fell >>

\* load_results_tool() of another caller, once a save has opened the file
Load ==
    /\ \E w \in Writers : race.at[w] >= 0
    /\ ret' = load_results_tool(file, "ok")
    /\ path' = "load"
    /\ UNCHANGED << pc, llm, tavily_search, question, request, node, state, file, now, trace,
                    oracles, threw, saves, saved, io, last, fell, race >>

NextRace ==
    \/ \E w \in Writers : SaveOpen(w)
    \/ \E w \in Writers : SaveWrite(w)
    \/ Load

SpecRace == Init /\ [][NextRace]_vars

\* Spec: one analysis and any number of loads, every oracle script; the
\* disk works.
Next ==
    \/ Import
    \/ \E q \in Questions : Call(q, { "ok" }, MaxClock)
    \/ Supervisor
    \/ Search(SearchScripts)
    \/ Extract(ExtractScripts(state.analysis_type))
    \/ Analyze(SummaryScripts, RecScripts)
    \/ Visualize(RenderScripts)
    \/ Finish({ "ok" }, RenderScripts)

Spec == Init /\ [][Next]_vars

(***************************************************************************)
(* SpecSeq: analyses one after the other, with oracles that either fail on *)
(* every call or answer well on every call.                                *)
(***************************************************************************)
SeqQuestions ==
    { "Perform a 'Market Gap' analysis for 'smart home devices' on 'Amazon' in 'US' for 'Last Month'.",
      "hello",
      "load my results" }

SeqExtractScripts(analysis_type) ==
    { << ExtractRaise >>, << ExtractList(OracleRecords(analysis_type)) >>,
      << ExtractList(<< [ k |-> "str", f |-> [ text |-> "ab" ] ] >>) >> }

SeqSearchScripts == { << SearchRaise >>, << SearchLong >> }

SeqSummaryScripts == { << TextRaise >>, << SummaryText >> }

SeqRecScripts == { << TextRaise >>, << RecText >> }

SeqRenderScripts == { << TRUE >>, << FALSE >> }

NextSeq ==
    \/ Import
    \/ \E q \in SeqQuestions : Call(q, { "ok" }, MaxRuns)
    \/ Supervisor
    \/ Search(SeqSearchScripts)
    \/ Extract(SeqExtractScripts(state.analysis_type))
    \/ Analyze(SeqSummaryScripts, SeqRecScripts)
    \/ Visualize(SeqRenderScripts)
    \/ Finish({ "ok" }, SeqRenderScripts)

SpecSeq == Init /\ [][NextSeq]_vars

(***************************************************************************)
(* SpecTools: SpecSeq and the two buttons.                                 *)
(***************************************************************************)
NextTools ==
    \/ NextSeq
    \/ SaveButton({ "ok" }, MaxRuns)
    \/ LoadButton({ "ok" })

SpecTools == Init /\ [][NextTools]_vars

(***************************************************************************)
(* SpecIO: SpecSeq on a disk that may fail: a save may fail to open the    *)
(* file or fail while writing it, a load may fail to read it.              *)
(***************************************************************************)
NextIO ==
    \/ Import
    \/ \E q \in SeqQuestions : Call(q, LoadOutcomes, MaxRuns)
    \/ Supervisor
    \/ Search(SeqSearchScripts)
    \/ Extract(SeqExtractScripts(state.analysis_type))
    \/ Analyze(SeqSummaryScripts, SeqRecScripts)
    \/ Visualize(SeqRenderScripts)
    \/ Finish(SaveOutcomes, SeqRenderScripts)

SpecIO == Init /\ [][NextIO]_vars

(***************************************************************************)
(* SpecThrow: every call of the Search, Extraction and Summarization       *)
(* Oracles raises; the request is any combination of the form fields of    *)
(* the dashboard, known to the tables of the generator or not, and is      *)
(* repeated.                                                               *)
(***************************************************************************)
ThrowQuestions ==
    { UserQuery(a, c, p, r, t) :
        a \in { "Market Gap", "Trending Products", "High Selling Products", "Competitor Analysis" },
        c \in { "smart home devices", "skincare products", "garden tools" },
        p \in { "Amazon", "eBay", "Walmart", "Etsy" },
        r \in { "US", "UK", "DE", "JP", "FR" },
        t \in { "Last Week", "Last Month", "Last 3 Months", "Last 6 Months", "Last Year" } }

InitThrow == \E q \in ThrowQuestions : Start(q)

NextThrow ==
    \/ Import
    \/ \E q \in { question } : Call(q, { "ok" }, MaxRuns)
    \/ Supervisor
    \/ Search({ << SearchRaise >> })
    \/ Extract({ << ExtractRaise >> })
    \/ Analyze({ << TextRaise >> }, { << TextRaise >> })
    \/ Visualize(SeqRenderScripts)
    \/ Finish({ "ok" }, { << TRUE >> })

SpecThrow == InitThrow /\ [][NextThrow]_vars

(***************************************************************************)
(* Properties                                                              *)
(***************************************************************************)
\* the fields of a result envelope
EnvelopeFields ==
    { "summary", "tables", "charts", "recommendations", "status", "timestamp", "version" }

\* the last call ran the pipeline and has returned
RanPipeline == pc = "idle" /\ path \in { "normal", "catchall" }

\* C1: for each of the four analysis kinds and whatever the search, LLM and
\* rendering oracles did, the envelope returned by a call that ran the
\* pipeline has a non-empty summary, tables holding exactly one sequence of
\* at least one record, at least one chart and non-empty recommendations.
C1_CompleteEnvelope ==
    (RanPipeline /\ request.analysis_type \in SupportedKinds) =>
        /\ ret.kind = "value"
        /\ ret.v.summary # ""
        /\ Len(ret.v.tables) = 1
        /\ Len(ret.v.tables[1]) >= 1
        /\ Len(ret.v.charts) >= 1
        /\ ret.v.recommendations # ""

\* every oracle call raised and no chart could be drawn, and the call returned
C1_Witness ==
    /\ RanPipeline /\ path = "normal"
    /\ request.analysis_type = "competitor analysis"
    /\ llm /\ oracles /\ threw
    /\ ret.v.charts = << EmptyChart >>

\* C2: no exception leaves agent_orchestrator, whatever the request text and
\* the oracles: every call that has ended returned a value, and a call that
\* went through the catch-all returned an envelope built by the handler.
C2_NeverRaises ==
    /\ ret.kind # "raise"
    /\ (pc = "idle" /\ path # "none") => ret.kind = "value"
    /\ (pc = "idle" /\ path = "catchall") =>
           /\ required_keys \subseteq DOMAIN ret.v
           /\ ret.v.status = StatusRecovered

\* an exception was raised after workflow.invoke and the handler returned
C2_Witness ==
    /\ pc = "idle" /\ path = "catchall" /\ ret.kind = "value"
    /\ SampleRaises(state.extracted_data)

\* C3, as claimed: a configured ceiling bounds the supervisor cycles whatever
\* the stages do.  The only count supervisor_node reads is max_retries: for
\* some value of it up to the configured ENTERPRISE_CONFIG.max_retries the
\* supervisor routes to FINISH although a field is still empty.
C3_CeilingStopsLoop ==
    (pc = "graph" /\ node = "supervisor" /\ supervisor_node(state).next # "FINISH") =>
        \E n \in 0..ENTERPRISE_CONFIG.max_retries :
            supervisor_node([ state EXCEPT !.max_retries = n ]).next = "FINISH"

\* C4, as claimed: every envelope agent_orchestrator returns, on the normal
\* path, the catch-all path and the load path, has all seven fields.
C4_WellFormed ==
    (pc = "idle" /\ ret.kind = "value") => EnvelopeFields \subseteq DOMAIN ret.v

\* C5: a load that follows save_results_tool(e), with no save in between,
\* returns e with a fresh timestamp and the version tag: every other field
\* of e comes back unchanged and no field is added.
C5_SaveThenLoad ==
    (pc = "idle" /\ (path = "load" \/ path = "load button") /\ saved.kind = "value") =>
        /\ ret.kind = "value"
        /\ "timestamp" \in DOMAIN ret.v /\ "version" \in DOMAIN ret.v
        /\ \A key \in DOMAIN saved.v \ { "timestamp" } :
               key \in DOMAIN ret.v /\ ret.v[key] = saved.v[key]
        /\ \A key \in DOMAIN ret.v :
               key \in DOMAIN saved.v \/ key = "timestamp" \/ key = "version"
        /\ ret.v.version = "1.0"
        /\ "timestamp" \in DOMAIN saved.v => ret.v.timestamp > saved.v.timestamp

\* an envelope saved before was saved again with the button, then loaded
C5_Witness ==
    /\ pc = "idle" /\ path = "load button" /\ saved.kind = "value"
    /\ "timestamp" \in DOMAIN saved.v
    /\ ret.v.timestamp = 2

\* C6: a load never raises.  Without a results file it returns the "No saved
\* results found" envelope with empty tables and charts; with a file that
\* cannot be read or does not hold valid JSON it returns an envelope that
\* tells the error, with empty tables and charts.
C6_LoadNeverErrors ==
    (pc = "idle" /\ path = "load") =>
        /\ ret.kind = "value"
        /\ ~file.exists =>
               /\ ret.v.summary = "No saved results found. Run an analysis first."
               /\ ret.v.tables = << >>
               /\ ret.v.charts = << >>
        /\ (file.exists /\ (~file.valid \/ io = "read fails")) =>
               /\ SubSeq(ret.v.summary, 1, 23) = "Error loading results: "
               /\ Len(ret.v.summary) > 23
               /\ ret.v.tables = << >>
               /\ ret.v.charts = << >>

\* a load found a results file that a failed write left without valid JSON
C6_Witness ==
    pc = "idle" /\ path = "load" /\ file = BrokenFile /\ io = "ok"

\* C7: a call whose text contains "load" and "result" only loads: it ends
\* at once with what load_results_tool returns, no node of the graph runs,
\* no oracle is called, save_results_tool is not called and the file stays
\* as it was, whatever else the text holds.
C7_LoadShortCircuit ==
    [][ (pc = "idle" /\ contains(question', "load") /\ contains(question', "result")) =>
          /\ pc' = "idle" /\ path' = "load"
          /\ trace' = << >> /\ ~oracles' /\ saves' = 0
          /\ file' = file /\ now' = now /\ saved' = saved
          /\ ret' = load_results_tool(file, "ok") ]_vars

\* a text with an analysis keyword and quoted parameters was served by a
\* load while a saved result existed
C7_Witness ==
    /\ pc = "idle" /\ path = "load"
    /\ contains(question, "'Market Gap'") /\ contains(question, "for 'electronics'")
    /\ file.exists

\* C8: in sequential use the file holds exactly the envelope returned by the
\* latest call that ran the pipeline: such a call leaves the file holding
\* the envelope it returns, and no other step changes the file.
C8_FileHoldsLatest ==
    [][ /\ (pc = "graph" /\ pc' = "idle") =>
               ret'.kind = "value" /\ file' = JsonFile(ret'.v)
        /\ (file' # file) => (pc = "graph" /\ pc' = "idle") ]_vars

\* a second analysis, ended by the catch-all, replaced the first saved result
C8_Witness ==
    /\ pc = "idle" /\ path = "catchall" /\ now = 2
    /\ file = JsonFile(ret.v)

\* C10: when every oracle call raised, a request naming one of the four
\* kinds returns tables[0] of exactly 5 records, each with exactly the
\* fields of the kind; for Market Gap every demand_score lies in [0, 10]
\* (0..100 in tenths).
C10_FallbackRecords ==
    (pc = "idle" /\ path = "normal" /\ threw /\ request.analysis_type \in SupportedKinds) =>
        /\ Len(ret.v.tables) = 1
        /\ Len(ret.v.tables[1]) = 5
        /\ \A i \in 1..5 :
               /\ ret.v.tables[1][i].k = "dict"
               /\ DOMAIN ret.v.tables[1][i].f = table_fields(request.analysis_type)
        /\ request.analysis_type = "market gap" =>
               \A i \in 1..5 : ret.v.tables[1][i].f.demand_score \in 0..100

\* Market Gap for a category, a platform, a region and a time window that
\* the tables of the generator do not know, every oracle call raising
C10_Witness ==
    /\ pc = "idle" /\ path = "normal" /\ llm /\ oracles /\ threw
    /\ request = [ analysis_type |-> "market gap", category |-> "garden tools",
                   platform |-> "Etsy", region |-> "FR", time_period |-> "Last Year" ]
    /\ Len(ret.v.tables[1]) = 5

\* the records are all dicts with exactly the fields of the analysis kind
ShapedAs(data, analysis_type) ==
    \A i \in 1..Len(data) :
        data[i].k = "dict" /\ DOMAIN data[i].f = table_fields(analysis_type)

\* C11, as claimed: in every pipeline state and every returned envelope of a
\* request for one of the four kinds, every record of extracted_data and of
\* tables[0] has exactly the field set of the kind, whatever list the
\* Extraction Oracle returned.
C11_RecordShape ==
    (request.analysis_type \in SupportedKinds /\ (pc = "graph" \/ RanPipeline)) =>
        /\ ShapedAs(state.extracted_data, request.analysis_type)
        /\ RanPipeline => ShapedAs(ret.v.tables[1], request.analysis_type)

\* the outcomes of the Extraction Oracle that C12 names: an exception, a
\* value that is not a list, the empty list and [{}]
EmptyObjectList == ExtractList(<< Dict(<< >>) >>)

InvalidExtractions ==
    { ExtractRaise, ExtractNonList, ExtractList(<< >>), EmptyObjectList }

\* C12: when the Extract stage has returned and every answer it took from
\* the Extraction Oracle was an exception, a non-list, [] or [{}], then
\* extracted_data is the output of the Fallback Data Generator: a non-empty
\* list whose first element is a dict of more than one field.
C12_ExtractNeverEmpty ==
    (pc = "graph" /\ last.stage = "extract"
       /\ \A n \in 1..last.calls : Outcome(last.script, n) \in InvalidExtractions) =>
        /\ Len(state.extracted_data) > 0
        /\ state.extracted_data[1].k = "dict"
        /\ Cardinality(DOMAIN state.extracted_data[1].f) > 1
        /\ state.extracted_data # << Dict(<< >>) >>
        /\ fell

\* the oracle answered [{}] to a Market Gap request and the stage returned
\* the five fallback records
C12_Witness ==
    /\ pc = "graph" /\ last.stage = "extract" /\ llm
    /\ last.calls = 1 /\ last.script = << EmptyObjectList >>
    /\ state.analysis_type = "market gap"
    /\ Len(state.extracted_data) = 5

\* the Search Oracle gave a result that search_node accepts
Substantial(o) == ~o.raises /\ o.truthy /\ Len(o.dump) > MinRawDataLen

\* C13: when the Search stage has returned and no answer it took from the
\* Search Oracle was a body of more than 100 characters (the oracle raised,
\* returned nothing or returned a short body every time), raw_data is a
\* non-empty payload with an empty results list and a status marker, not a
\* body of the oracle, and the supervisor sends the run to Extract next.
C13_SearchNeverAborts ==
    (pc = "graph" /\ last.stage = "search"
       /\ \A n \in 1..last.calls : ~Substantial(Outcome(last.script, n))) =>
        /\ state.raw_data # ""
        /\ contains(state.raw_data, "\"results\": []")
        /\ contains(state.raw_data, "\"status\": \"")
        /\ \A n \in 1..last.calls : Outcome(last.script, n).dump # state.raw_data
        /\ state.next = "extract"
        /\ node = "supervisor" /\ supervisor_node(state).next = "extract"

\* the oracle returned a 5-character body on each of the five attempts
C13_Witness ==
    /\ pc = "graph" /\ last.stage = "search"
    /\ last.script = << SearchShort >> /\ last.calls = SearchNodeRetries
    /\ Len(SearchShort.dump) = 5
    /\ state.raw_data = "{\"results\": [], \"status\": \"fallback\"}"

\* C20, as claimed: one execution of the Search stage calls the Search
\* Oracle at most ENTERPRISE_CONFIG.max_retries = 10 times, and makes no
\* call after a payload of more than 100 characters was obtained.
C20_SearchCallsBounded ==
    (pc = "graph" /\ last.stage = "search") =>
        /\ last.calls <= ENTERPRISE_CONFIG.max_retries
        /\ \A n \in 1..(last.calls - 1) : ~Substantial(Outcome(last.script, n))

\* C14, as claimed: for a request whose kind is none of the four (the
\* parser's "general"), the records the Extract stage produces are the five
\* Market Gap records of the Fallback Data Generator, with the LLM client
\* available or not.
C14_DefaultKindMarketGap ==
    (pc = "graph" /\ last.stage = "extract" /\ request.analysis_type \notin SupportedKinds) =>
        /\ Len(state.extracted_data) = 5
        /\ ShapedAs(state.extracted_data, "market gap")
        /\ state.extracted_data =
             generate_enhanced_fallback_data("market gap", state.category, state.platform,
                                             state.region, state.time_period)

\* the envelope says, in its summary, recommendations or status, that the
\* save failed
ExplainsSaveError(v) ==
    \/ contains(v.summary, "Error saving results")
    \/ contains(v.recommendations, "Error saving results")
    \/ contains(v.status, "Error saving results")
    \/ (v.status # StatusComplete /\ v.status # StatusRecovered)

\* C15, as claimed: no failure of the disk is raised; a failing load returns
\* an envelope whose summary explains the error, and a failing save during
\* agent_orchestrator shows in a field of the envelope it returns.
C15_PersistenceFailureExplained ==
    /\ ret.kind # "raise"
    /\ (pc = "idle" /\ path = "load" /\ file.exists /\ io = "read fails") =>
           SubSeq(ret.v.summary, 1, 23) = "Error loading results: "
    /\ (RanPipeline /\ io # "ok") => ExplainsSaveError(ret.v)

\* C16: the envelope of the catch-all holds one table, the records the
\* Fallback Data Generator makes for the category, platform, region and
\* time window of the request (for one of the four kinds), at least one
\* chart, the template recommendations for the category, and a status that
\* is not the status of a run that completed normally.
C16_CatchAllEnvelope ==
    (pc = "idle" /\ path = "catchall") =>
        /\ ret.kind = "value"
        /\ Len(ret.v.tables) = 1
        /\ \E kind \in SupportedKinds :
               ret.v.tables[1] =
                   generate_enhanced_fallback_data(kind, request.category, request.platform,
                                                   request.region, request.time_period)
        /\ Len(ret.v.charts) >= 1
        /\ \E kind \in SupportedKinds :
               ret.v.recommendations = generate_enterprise_recommendations(kind, request.category)
        /\ ret.v.status # StatusComplete

\* a Competitor Analysis request ended in the catch-all
C16_Witness ==
    /\ pc = "idle" /\ path = "catchall" /\ ret.kind = "value"
    /\ request.analysis_type = "competitor analysis"
    /\ request.category = "skincare products"
    /\ ret.v.status = StatusRecovered
    /\ Len(ret.v.tables[1]) = 5

\* C17, as claimed: the status tells a run with fallback data from a run on
\* oracle output.  A run in which every stage used the output of its oracle
\* returns through `result` with the status StatusComplete, so a run of the
\* same request in which a stage substituted fallback data has to return
\* another status.
C17_StatusTellsFallback ==
    (pc = "idle" /\ path = "normal") =>
        /\ ~fell => ret.v.status = StatusComplete
        /\ fell => ret.v.status # StatusComplete

\* the labels a node may leave in state["next"]
NextLabels == { "search", "extract", "analyze", "visualize", "supervisor", "FINISH" }

\* C18: a step of the supervisor goes to search if raw_data is empty, else
\* to extract if extracted_data is empty, else to analyze if analysis is
\* empty, else to visualize if chart is empty, else to the end with the
\* label FINISH; the choice is the same whatever label the stage before left
\* in state["next"], the end is chosen only with all four outputs present,
\* and every stage is followed by the supervisor whatever label it returned.
C18_SupervisorPriority ==
    [][ /\ (pc = "graph" /\ node = "supervisor" /\ pc' = "graph") =>
            /\ node' = IF state.raw_data = "" THEN "search"
                       ELSE IF Len(state.extracted_data) = 0 THEN "extract"
                       ELSE IF DOMAIN state.analysis = {} THEN "analyze"
                       ELSE IF Len(state.chart) = 0 THEN "visualize"
                       ELSE "END"
            /\ state'.next = (IF node' = "END" THEN "FINISH" ELSE node')
            /\ \A label \in NextLabels :
                   supervisor_node([ state EXCEPT !.next = label ]).next = state'.next
            /\ node' = "END" =>
                   /\ state'.raw_data # "" /\ Len(state'.extracted_data) > 0
                   /\ DOMAIN state'.analysis # {} /\ Len(state'.chart) > 0
        /\ (pc = "graph" /\ node # "supervisor" /\ node # "END" /\ pc' = "graph") =>
            /\ node' = "supervisor"
            /\ state'.next \in NextLabels
      ]_vars

\* the supervisor has just chosen analyze, after search left the label
\* extract and extract left the label analyze
C18_Witness ==
    /\ pc = "graph" /\ node = "analyze" /\ state.next = "analyze"
    /\ trace = << "supervisor", "search", "supervisor", "extract", "supervisor" >>
    /\ state.raw_data # "" /\ Len(state.extracted_data) > 0 /\ DOMAIN state.analysis = {}

\* the nodes of one run, in order
LinearRun ==
    << "supervisor", "search", "supervisor", "extract", "supervisor", "analyze",
       "supervisor", "visualize", "supervisor" >>

\* C19: the nodes a run has executed are always a prefix of supervisor,
\* search, supervisor, extract, supervisor, analyze, supervisor, visualize,
\* supervisor, and a run that has left the graph executed all of it: each
\* stage once, in order, and the supervisor five times.
C19_LinearRun ==
    /\ pc = "graph" =>
           /\ Len(trace) <= Len(LinearRun)
           /\ trace = SubSeq(LinearRun, 1, Len(trace))
    /\ ((pc = "graph" /\ node = "END") \/ RanPipeline) => trace = LinearRun

\* a run of a Trending Products request that fell back on the way has ended
C19_Witness ==
    /\ RanPipeline /\ path = "normal" /\ fell
    /\ request.analysis_type = "trending products"
    /\ Len(trace) = 9 /\ trace[8] = "visualize"

\* C21: for a request of one of the four kinds, whenever the Extract stage
\* fell back (no LLM client, the oracle raising, answering a non-list, [] or
\* a first record of at most one field, or an exception inside extract_node)
\* extracted_data is generate_enhanced_fallback_data of the request's own
\* analysis_type, category, platform, region and time_period.
C21_OneFallbackValue ==
    (pc = "graph" /\ last.stage = "extract" /\ last.fell
       /\ request.analysis_type \in SupportedKinds) =>
        state.extracted_data =
            generate_enhanced_fallback_data(request.analysis_type, request.category,
                request.platform, request.region, request.time_period)

\* a High Selling Products request fell back in Extract for want of an LLM client
C21_Witness ==
    /\ pc = "graph" /\ last.stage = "extract" /\ last.fell /\ ~llm
    /\ request.analysis_type = "high selling products"
    /\ Len(state.extracted_data) = 5

\* C22, as claimed: the two sub-calls of the Analyze stage fall back
\* independently.  When the summary chain raises on every call and the
\* recommendations chain would answer, the recommendations chain is called
\* and its text is the recommendations; when only the recommendations chain
\* raises, the summary is the text of the summary chain.
C22_IndependentSubCalls ==
    (pc = "graph" /\ last.stage = "analyze" /\ llm) =>
        /\ (AllRaise(last.sscript, Len(last.sscript)) /\ last.rscript = << RecText >>) =>
               /\ last.rcalls > 0
               /\ state.analysis.recommendations = RecText.text
        /\ (AllRaise(last.rscript, Len(last.rscript)) /\ last.sscript = << SummaryText >>) =>
               /\ last.scalls > 0
               /\ state.analysis.summary = SummaryText.text

\* C23: when the Analyze stage has returned, and ever after in the run and
\* in its envelope, the summary and the recommendations are both non-empty,
\* whatever the Summarization Oracle did and with or without an LLM client.
C23_AnalysisNeverBlank ==
    /\ (pc = "graph" /\ DOMAIN state.analysis # {}) =>
           state.analysis.summary # "" /\ state.analysis.recommendations # ""
    /\ (pc = "graph" /\ last.stage = "analyze") => DOMAIN state.analysis # {}
    /\ (pc = "idle" /\ path = "normal") =>
           ret.v.summary # "" /\ ret.v.recommendations # ""

\* the summary chain answered "" three times and the recommendations chain
\* raised three times
C23_Witness ==
    /\ pc = "graph" /\ last.stage = "analyze" /\ llm
    /\ last.sscript = << TextEmpty >> /\ last.rscript = << TextRaise >>
    /\ last.scalls = AnalysisAttempts /\ last.rcalls = AnalysisAttempts
    /\ state.analysis.summary # ""

\* the recommendations of the stage are not a text of the oracle
RecommendationsFellBack ==
    \A n \in 1..last.rcalls :
        Outcome(last.rscript, n).raises \/ Outcome(last.rscript, n).text = ""

\* C24, as claimed: whenever the recommendations of the Analyze stage are
\* the fallback template, they are the template of the request's kind
\* filled in with the request's category.
C24_TemplateForCategory ==
    (pc = "graph" /\ last.stage = "analyze" /\ RecommendationsFellBack) =>
        state.analysis.recommendations =
            generate_enterprise_recommendations(request.analysis_type, request.category)

\* C25: when the Visualize stage has returned, chart is either the three
\* charts of the recipe of the kind or the single placeholder '{}', never
\* empty and never a mix; the recipe ran at most twice; the charts of a
\* first run that succeeded are kept; and the placeholder stands only where
\* no run of the recipe succeeded, after the one retry when the first run
\* is what failed.
C25_ChartsOrPlaceholder ==
    (pc = "graph" /\ last.stage = "visualize") =>
        /\ Len(state.chart) >= 1 /\ Len(state.chart) <= 3
        /\ state.chart = ChartsOf(state.analysis_type) \/ state.chart = << EmptyChart >>
        /\ last.runs <= 2
        /\ (last.runs >= 1 /\ Outcome(last.script, 1)
              /\ ShapedAs(state.extracted_data, state.analysis_type)) =>
               last.runs = 1 /\ state.chart = ChartsOf(state.analysis_type)
        /\ (state.chart = << EmptyChart >> /\ ~SampleRaises(state.extracted_data)
              /\ state.analysis_type \in SupportedKinds) => last.runs = 2
        /\ (last.runs = 2 /\ Outcome(last.script, 2)
              /\ ShapedAs(state.extracted_data, state.analysis_type)) =>
               state.chart = ChartsOf(state.analysis_type)

\* the recipe raised on its first run and drew three charts on the retry
C25_Witness ==
    /\ pc = "graph" /\ last.stage = "visualize"
    /\ last.script = << FALSE, TRUE >> /\ last.runs = 2
    /\ Len(state.chart) = 3

\* the keys of the state that a node may write
Writes(stage, key) ==
    \/ key = "next"
    \/ stage = "search" /\ key = "raw_data"
    \/ stage = "extract" /\ key = "extracted_data"
    \/ stage = "analyze" /\ key = "analysis"
    \/ stage = "visualize" /\ key = "chart"
    \/ stage = "supervisor" /\ key = "max_retries"

\* C26: a step of the graph changes no key of the state but the output of
\* the node that ran and the label next (the supervisor: next and
\* max_retries); the five request fields never change and are those of the
\* parsed request; and the tables[0] of the envelope of a run is the record
\* sequence the state holds at the end, the one Extract wrote.
C26_PartialUpdates ==
    [][ /\ (pc = "graph" /\ pc' = "graph") =>
            /\ DOMAIN state' = DOMAIN state
            /\ \A key \in DOMAIN state :
                   state'[key] # state[key] => Writes(trace'[Len(trace')], key)
            /\ state'.analysis_type = request.analysis_type
            /\ state'.category = request.category
            /\ state'.platform = request.platform
            /\ state'.region = request.region
            /\ state'.time_period = request.time_period
        /\ (pc = "graph" /\ pc' = "idle" /\ path' = "normal") =>
            /\ state' = state
            /\ ret'.v.tables = << state.extracted_data >>
      ]_vars

\* a Competitor Analysis run has passed Analyze and Visualize and returned
\* the records of Extract as its table
C26_Witness ==
    /\ RanPipeline /\ path = "normal"
    /\ request.analysis_type = "competitor analysis"
    /\ Len(state.extracted_data) > 0 /\ Len(state.chart) > 0
    /\ ret.v.tables = << state.extracted_data >>

\* C27: when the search client could not be created at import, the module
\* is still imported and agent_orchestrator can be called: after the import
\* the program is idle or inside a run, and a run that ends without the
\* client has called no oracle of search and returns a full envelope.
C27_UsableWithoutSearchClient ==
    (pc # "import" /\ ~tavily_search) =>
        /\ pc = "idle" \/ pc = "graph"
        /\ (pc = "graph" /\ last.stage = "search") =>
               last.calls = 0 /\ state.raw_data # ""
        /\ RanPipeline => DOMAIN ret.v = EnvelopeFields

\* C28: a call of save_results_tool that fails (the file cannot be opened,
\* or the write stops part-way) leaves the file of the last successful save
\* as it was: load_results_tool returns after it what it returned before.
C28_FailedSaveKeepsFile ==
    [][ (now' = now + 1 /\ io' # "ok" /\ file.exists /\ file.valid) =>
            /\ file'.exists /\ file'.valid
            /\ load_results_tool(file', "ok") = load_results_tool(file, "ok")
      ]_vars

\* C29: a load_results_tool that runs between the steps of one or more
\* saves returns, and what it returns is the whole stamped dict of one of
\* the saves begun so far or the "Error loading results" envelope with
\* empty tables and charts.
C29_LoadSeesWholeSave ==
    (path = "load" /\ \E w \in Writers : race.at[w] >= 0) =>
        /\ ret.kind = "value"
        /\ \/ \E w \in Writers : race.at[w] >= 0 /\ ret.v = race.data[w]
           \/ /\ ret.v.summary = "Error loading results: Expecting value"
              /\ ret.v.tables = << >> /\ ret.v.charts = << >>

\* an oracle call that raised or gave the empty text
Blank(o) == o.raises \/ o.text = ""

\* C30: when Extract has returned, the extraction chain was invoked at most 3
\* times and no call before the last gave a non-empty list; when Analyze
\* has returned, the summary chain and the recommendations chain were each
\* invoked at most 3 times and no call before the last of either gave a
\* non-empty text.
C30_OracleCallsBounded ==
    /\ (pc = "graph" /\ last.stage = "extract") =>
           /\ last.calls <= 3
           /\ \A n \in 1..(last.calls - 1) :
                  \/ Outcome(last.script, n).raises
                  \/ ~Outcome(last.script, n).islist
                  \/ Len(Outcome(last.script, n).items) = 0
    /\ (pc = "graph" /\ last.stage = "analyze") =>
           /\ last.scalls <= 3 /\ last.rcalls <= 3
           /\ \A n \in 1..(last.scalls - 1) : Blank(Outcome(last.sscript, n))
           /\ \A n \in 1..(last.rcalls - 1) : Blank(Outcome(last.rscript, n))

\* the summary chain answered at once and was not called again while the
\* recommendations chain raised three times
C30_Witness ==
    /\ pc = "graph" /\ last.stage = "analyze"
    /\ last.sscript = << SummaryText >> /\ last.rscript = << TextRaise >>
    /\ last.scalls = 1 /\ last.rcalls = 3
    /\ state.analysis.summary = SummaryText.text

====
